---- MODULE Spec2Model ----
(***************************************************************************)
(* Model of incrementalmd5-go (src/main.go): an incremental MD5 manifest   *)
(* scanner.  One run of main() reads the manifest and the marker, walks    *)
(* the tree, hashes the stale files, and either leaves the manifest alone  *)
(* or rewrites it through a temporary file and a rename.                   *)
(*                                                                         *)
(* Strings are sequences of one-character strings.  An MD5 digest, 32 hex  *)
(* digits in the program, is one token of such a sequence: a string that   *)
(* encodes the hashed bytes injectively and holds no white space, which is *)
(* all the program's parsing can observe of a hex digest.                  *)
(***************************************************************************)
EXTENDS Integers, Sequences, FiniteSets, TLC

\* ------------------------------------------------------------------ bounds
MaxTime  == 3      \* the clock stops ticking here
MaxRuns  == 2      \* runs of main() started per behaviour
MaxEdits == 1      \* changes made to the tree by its user per behaviour

Procs == {1, 2}    \* scanner instances; Spec runs instance 1 alone
Solo  == {1}

\* ----------------------------------------------------------------- strings
MD5TimestampFile ==
    <<".", "m", "d", "5", "s", "u", "m", "-", "t", "i", "m", "e", "s", "t", "a", "m", "p">>

Sep      == <<" ", " ">>
TmpExt   == <<".", "t", "m", "p">>
Slash    == <<"/">>

\* Byte order of the characters that occur in path names (ASCII order).
ByteOrder ==
    <<"\n", " ", "-", ".", "/", "5", "a", "b", "d", "e", "i", "m", "o", "p", "r", "s", "t", "u", "x">>

Ord(c) == CHOOSE i \in 1..Len(ByteOrder) : ByteOrder[i] = c

Min(a, b) == IF a < b THEN a ELSE b

\* s < t in the order of Go's string comparison (sort.Strings).
StrLess(s, t) ==
    \/ \E i \in 1..Min(Len(s), Len(t)) :
          /\ \A j \in 1..(i - 1) : s[j] = t[j]
          /\ Ord(s[i]) < Ord(t[i])
    \/ /\ Len(s) < Len(t)
       /\ \A j \in 1..Len(s) : s[j] = t[j]

\* Mutant of SortStrings: the comparison the wrong way round.
RECURSIVE SortStringsDescending(_)
SortStringsDescending(S) ==
    IF S = {} THEN <<>>
    ELSE LET m == CHOOSE x \in S : \A y \in S \ {x} : StrLess(y, x)
         IN  <<m>> \o SortStringsDescending(S \ {m})

RECURSIVE SortStrings(_)
SortStrings(S) ==
    IF S = {} THEN <<>>
    ELSE LET m == CHOOSE x \in S : \A y \in S \ {x} : StrLess(x, y)
         IN  <<m>> \o SortStrings(S \ {m})

HasSuffix(s, suf) ==
    /\ Len(s) >= Len(suf)
    /\ SubSeq(s, Len(s) - Len(suf) + 1, Len(s)) = suf

IsSpace(c) == c \in {" ", "\n", "\t", "\r"}

RECURSIVE TrimLeft(_)
TrimLeft(s) ==
    IF s # <<>> /\ IsSpace(Head(s)) THEN TrimLeft(Tail(s)) ELSE s

RECURSIVE TrimRight(_)
TrimRight(s) ==
    IF s # <<>> /\ IsSpace(s[Len(s)]) THEN TrimRight(SubSeq(s, 1, Len(s) - 1)) ELSE s

TrimSpace(s) == TrimRight(TrimLeft(s))

\* strings.SplitN(line, "  ", 2): cut at the first occurrence of the separator.
SplitN2(line) ==
    LET hits == {i \in 1..(Len(line) - 1) : line[i] = " " /\ line[i + 1] = " "}
    IN  IF hits = {} THEN <<line>>
        ELSE LET i == CHOOSE k \in hits : \A j \in hits : k <= j
             IN  <<SubSeq(line, 1, i - 1), SubSeq(line, i + 2, Len(line))>>

\* bufio.Scanner with ScanLines: the lines of the data, without their newline
\* (and without one trailing carriage return); a last line needs no newline.
DropCR(s) == IF s # <<>> /\ s[Len(s)] = "\r" THEN SubSeq(s, 1, Len(s) - 1) ELSE s

RECURSIVE ScanLines(_)
ScanLines(data) ==
    IF data = <<>> THEN <<>>
    ELSE LET nl == {i \in 1..Len(data) : data[i] = "\n"}
         IN  IF nl = {} THEN <<DropCR(data)>>
             ELSE LET i == CHOOSE k \in nl : \A j \in nl : k <= j
                  IN  <<DropCR(SubSeq(data, 1, i - 1))>>
                        \o ScanLines(SubSeq(data, i + 1, Len(data)))

\* ------------------------------------------------------------ Go map values
EmptyMap == [k \in {} |-> <<>>]

Put(m, k, v) == [x \in DOMAIN m \cup {k} |-> IF x = k THEN v ELSE m[x]]

\* m[k] on a Go map: the zero value "" when the key is absent.
Lookup(m, k) == IF k \in DOMAIN m THEN m[k] ELSE <<>>

\* ------------------------------------------------------------ file system
targetDir == <<"/", "r">>                       \* filepath.Abs(dir)
OutName   == <<"m", "d", "5", "s", "u", "m", "s", ".", "t", "x", "t">>

Join(d, name) == d \o Slash \o name             \* filepath.Join
Rel(d, path)  == SubSeq(path, Len(d) + 2, Len(path))   \* filepath.Rel, path under d

InsideOut  == Join(targetDir, OutName)          \* -output inside the scanned root
OutsideOut == Join(<<"/", "o">>, OutName)       \* -output outside the scanned root
Outputs    == {InsideOut, OutsideOut}

FileA == <<"a">>
FileB == <<"b", " ">>                           \* a name that ends with a space
UserNames == {FileA, FileB}
UserPaths == {Join(targetDir, n) : n \in UserNames}

RootNames == UserNames \cup {MD5TimestampFile, OutName, OutName \o TmpExt}
AllPaths  == {Join(targetDir, n) : n \in RootNames} \cup {OutsideOut, OutsideOut \o TmpExt}

ZeroTime == 0                                   \* time.Time{}: before every file time

NoFile == [exists |-> FALSE, data |-> <<>>, mtime |-> ZeroTime, readable |-> FALSE]
NewFile(d, t) == [exists |-> TRUE, data |-> d, mtime |-> t, readable |-> TRUE]

NoFiles == [q \in AllPaths |-> NoFile]

Hi  == <<"h", "i">>
Bye == <<"b", "y", "e">>
Contents == {Hi, Bye}

\* ------------------------------------------------- the program's functions
\* hex.EncodeToString(hash.Sum(nil)): one digest token, injective in the bytes.
Digest(data) == <<ToString(data)>>

\* fileMD5: the digest of the file at path, or an error when it cannot be opened.
fileMD5(files, path) ==
    IF files[path].exists /\ files[path].readable
    THEN [err |-> FALSE, sum |-> Digest(files[path].data)]
    ELSE [err |-> TRUE, sum |-> <<>>]

\* One iteration of readChecksums' loop: trim, split, record when two parts.
ParseLine(checksums, text) ==
    LET line  == TrimSpace(text)
        parts == SplitN2(line)
    IN  IF Len(parts) = 2 THEN Put(checksums, parts[2], parts[1]) ELSE checksums

RECURSIVE ParseLines(_, _)
ParseLines(checksums, lines) ==
    IF lines = <<>> THEN checksums
    ELSE ParseLines(ParseLine(checksums, Head(lines)), Tail(lines))

readChecksums(files, path) ==
    IF files[path].exists /\ files[path].readable
    THEN ParseLines(EmptyMap, ScanLines(files[path].data))
    ELSE EmptyMap

\* fmt.Fprintf(file, "%s  %s\n", checksums[path], path)
FormatLine(sum, path) == sum \o Sep \o path \o <<"\n">>

\* A byte of a hole: what a file reads as where nothing was written.
Nul == "NUL"

\* write(2) through a descriptor whose offset is off: the bytes land at the
\* offset, over what is there, after a hole when the file is shorter.
WriteAt(data, off, bytes) ==
    LET padded == IF Len(data) < off
                  THEN data \o [i \in 1..(off - Len(data)) |-> Nul]
                  ELSE data
    IN  SubSeq(padded, 1, off) \o bytes
            \o SubSeq(padded, off + Len(bytes) + 1, Len(padded))

\* No open file.
Closed == [at |-> "closed", off |-> 0]

getLastRunTime(files, path) ==
    IF files[path].exists THEN files[path].mtime ELSE ZeroTime

\* Mutant of mapsEqual: the value test inverted.
mapsEqualInverted(a, b) ==
    /\ Cardinality(DOMAIN a) = Cardinality(DOMAIN b)
    /\ \A k \in DOMAIN a : k \in DOMAIN b /\ b[k] # a[k]

mapsEqual(a, b) ==
    /\ Cardinality(DOMAIN a) = Cardinality(DOMAIN b)
    /\ \A k \in DOMAIN a : k \in DOMAIN b /\ b[k] = a[k]

fileExistsInChecksums(path, checksums) == path \in DOMAIN checksums

\* The Walk callback's test for the marker (line 71).
IsMarker(relPath) == HasSuffix(relPath, MD5TimestampFile)

\* Mutants of NeedsUpdate: "not before" for "after"; "and" for "or".
NeedsUpdateNotBefore(info, relPath, last, existing) ==
    info.mtime >= last \/ ~(relPath \in DOMAIN existing)

NeedsUpdateBoth(info, relPath, last, existing) ==
    info.mtime > last /\ ~(relPath \in DOMAIN existing)

\* The staleness test (line 76).
NeedsUpdate(info, relPath, last, existing) ==
    info.mtime > last \/ ~fileExistsInChecksums(relPath, existing)

\* filepath.Walk reads the root's names sorted and then visits each.
ReadDirNames(files) == SortStrings({n \in RootNames : files[Join(targetDir, n)].exists})

\* -------------------------------------------------------------------- state
VARIABLES
    fs,                 \* the file system: path -> file
    now,                \* the clock (time.Now and the file system's clock)
    output,             \* outputPath, from the -output flag
    pc,                 \* where each instance of main() is
    existingChecksums,  \* main's locals, per instance
    newChecksums,
    lastRun,
    changed,
    neededUpdate,
    processedCount,
    todo,               \* names filepath.Walk has still to visit
    paths,              \* writeChecksums: sorted paths still to write
    file,               \* writeChecksums: the open temporary file, as a descriptor:
                        \* where the file it refers to is now ("tmp": at tmpPath,
                        \* "out": renamed to the output path, "unlinked": replaced
                        \* there by a later rename) and the descriptor's offset
    \* history, read by the properties only
    hashed,             \* [rel, err, sum]: the calls of fileMD5 in the run
    visited,            \* [rel, mtime]: the files the callback was given
    wrote,              \* writeChecksums was called in the run
    marked,             \* updateLastRun was called in the run
    saved,              \* writeChecksums returned without an error in the run
    events0,            \* events, when the run began
    fs0,                \* the file system when the run began
    events,             \* what happened since the last completed run
    runs,               \* runs started
    edits               \* changes made by the user

locals == <<existingChecksums, newChecksums, lastRun, changed, neededUpdate,
            processedCount, todo, paths, file>>
ghosts == <<hashed, visited, wrote, marked, saved, events0, fs0, events>>
vars   == <<fs, now, output, pc, locals, ghosts, runs, edits>>

timestampPath == Join(targetDir, MD5TimestampFile)
tmpPathInPlace == output          \* mutant of tmpPath: the manifest written in place
tmpPath       == output \o TmpExt

\* The manifests a run may find: none, one an earlier scan of "a" left, and
\* one written by hand that names the marker.
PriorManifests ==
    { NoFile,
      NewFile(FormatLine(Digest(Hi), FileA), 1),
      NewFile(FormatLine(Digest(Hi), MD5TimestampFile) \o <<"x", "\n">>, 1) }

\* The file "a" a first run may find: older than the marker, newer, unreadable.
InitA == {NewFile(Hi, 1), NewFile(Hi, 2), [NewFile(Hi, 2) EXCEPT !.readable = FALSE]}

Init ==
    /\ now = 2
    /\ output \in Outputs
    /\ \E man \in PriorManifests, mark \in {NoFile, NewFile(<<>>, 1)},
          a \in InitA,
          b \in {NoFile, NewFile(Hi, 1)} :
          fs = [q \in AllPaths |->
                  IF q = output THEN man
                  ELSE IF q = timestampPath THEN mark
                  ELSE IF q = Join(targetDir, FileA) THEN a
                  ELSE IF q = Join(targetDir, FileB) THEN b
                  ELSE NoFile]
    /\ pc = [p \in Procs |-> "idle"]
    /\ existingChecksums = [p \in Procs |-> EmptyMap]
    /\ newChecksums = [p \in Procs |-> EmptyMap]
    /\ lastRun = [p \in Procs |-> ZeroTime]
    /\ changed = [p \in Procs |-> FALSE]
    /\ neededUpdate = [p \in Procs |-> FALSE]
    /\ processedCount = [p \in Procs |-> 0]
    /\ todo = [p \in Procs |-> <<>>]
    /\ paths = [p \in Procs |-> <<>>]
    /\ file = [p \in Procs |-> Closed]
    /\ hashed = [p \in Procs |-> {}]
    /\ visited = [p \in Procs |-> {}]
    /\ wrote = [p \in Procs |-> FALSE]
    /\ marked = [p \in Procs |-> FALSE]
    /\ saved = [p \in Procs |-> FALSE]
    /\ events0 = [p \in Procs |-> {}]
    /\ fs0 = [p \in Procs |-> NoFiles]
    /\ events = {<<"init", <<>>>>}
    /\ runs = 0
    /\ edits = 0

\* ------------------------------------------------------------------ main()
\* Lines 42-58: load the manifest, copy it, read the marker, start the walk.
Begin(p) ==
    /\ pc[p] = "idle"
    /\ runs < MaxRuns
    /\ runs' = runs + 1
    /\ existingChecksums' = [existingChecksums EXCEPT ![p] = readChecksums(fs, output)]
    /\ newChecksums' = [newChecksums EXCEPT ![p] = readChecksums(fs, output)]
    /\ lastRun' = [lastRun EXCEPT ![p] = getLastRunTime(fs, timestampPath)]
    /\ changed' = [changed EXCEPT ![p] = FALSE]
    /\ neededUpdate' = [neededUpdate EXCEPT ![p] = FALSE]
    /\ processedCount' = [processedCount EXCEPT ![p] = 0]
    /\ todo' = [todo EXCEPT ![p] = ReadDirNames(fs)]
    /\ paths' = [paths EXCEPT ![p] = <<>>]
    /\ pc' = [pc EXCEPT ![p] = "walk"]
    /\ hashed' = [hashed EXCEPT ![p] = {}]
    /\ visited' = [visited EXCEPT ![p] = {}]
    /\ wrote' = [wrote EXCEPT ![p] = FALSE]
    /\ marked' = [marked EXCEPT ![p] = FALSE]
    /\ saved' = [saved EXCEPT ![p] = FALSE]
    /\ events0' = [events0 EXCEPT ![p] = events]
    /\ fs0' = [fs0 EXCEPT ![p] = fs]
    /\ UNCHANGED <<fs, now, output, file, events, edits>>

\* Mutant of Visit: a file that failed to hash counts as a stale file processed.
VisitCountsFailure(p) ==
    /\ pc[p] = "walk"
    /\ todo[p] # <<>>
    /\ LET path    == Join(targetDir, Head(todo[p]))
           info    == fs[path]
           relPath == Rel(targetDir, path)
           stale   == NeedsUpdate(info, relPath, lastRun[p], existingChecksums[p])
           res     == fileMD5(fs, path)
           differs == Lookup(existingChecksums[p], relPath) # res.sum
       IN  /\ todo' = [todo EXCEPT ![p] = Tail(todo[p])]
           /\ visited' = [visited EXCEPT ![p] =
                            IF info.exists
                            THEN @ \cup {[rel |-> relPath, mtime |-> info.mtime]}
                            ELSE @]
           /\ IF ~info.exists \/ IsMarker(relPath)
              THEN UNCHANGED <<newChecksums, changed, neededUpdate, processedCount,
                               hashed>>
              ELSE IF ~stale
                      THEN UNCHANGED <<newChecksums, changed, neededUpdate,
                                       processedCount, hashed>>
                      ELSE /\ hashed' = [hashed EXCEPT ![p] =
                                           @ \cup {[rel |-> relPath, err |-> res.err,
                                                    sum |-> res.sum]}]
                           /\ IF res.err
                              THEN /\ neededUpdate' = [neededUpdate EXCEPT ![p] = TRUE]
                                   /\ UNCHANGED <<newChecksums, changed, processedCount>>
                              ELSE /\ neededUpdate' = [neededUpdate EXCEPT ![p] = TRUE]
                                   /\ IF differs
                                      THEN /\ changed' = [changed EXCEPT ![p] = TRUE]
                                           /\ newChecksums' = [newChecksums EXCEPT ![p] =
                                                                 Put(@, relPath, res.sum)]
                                           /\ processedCount' =
                                                [processedCount EXCEPT ![p] = @ + 1]
                                      ELSE UNCHANGED <<newChecksums, changed,
                                                       processedCount>>
    /\ UNCHANGED <<fs, now, output, pc, existingChecksums, lastRun, paths, file,
                   wrote, marked, saved, events0, fs0, events, runs, edits>>

\* Mutant of Visit: a new checksum is recorded without setting the changed flag.
VisitForgetsChanged(p) ==
    /\ pc[p] = "walk"
    /\ todo[p] # <<>>
    /\ LET path    == Join(targetDir, Head(todo[p]))
           info    == fs[path]
           relPath == Rel(targetDir, path)
           stale   == NeedsUpdate(info, relPath, lastRun[p], existingChecksums[p])
           res     == fileMD5(fs, path)
           differs == Lookup(existingChecksums[p], relPath) # res.sum
       IN  /\ todo' = [todo EXCEPT ![p] = Tail(todo[p])]
           /\ visited' = [visited EXCEPT ![p] =
                            IF info.exists
                            THEN @ \cup {[rel |-> relPath, mtime |-> info.mtime]}
                            ELSE @]
           /\ IF ~info.exists \/ IsMarker(relPath)
              THEN UNCHANGED <<newChecksums, changed, neededUpdate, processedCount,
                               hashed>>
              ELSE IF ~stale
                      THEN UNCHANGED <<newChecksums, changed, neededUpdate,
                                       processedCount, hashed>>
                      ELSE /\ hashed' = [hashed EXCEPT ![p] =
                                           @ \cup {[rel |-> relPath, err |-> res.err,
                                                    sum |-> res.sum]}]
                           /\ IF res.err
                              THEN UNCHANGED <<newChecksums, changed, neededUpdate,
                                               processedCount>>
                              ELSE /\ neededUpdate' = [neededUpdate EXCEPT ![p] = TRUE]
                                   /\ IF differs
                                      THEN /\ UNCHANGED changed
                                           /\ newChecksums' = [newChecksums EXCEPT ![p] =
                                                                 Put(@, relPath, res.sum)]
                                           /\ processedCount' =
                                                [processedCount EXCEPT ![p] = @ + 1]
                                      ELSE UNCHANGED <<newChecksums, changed,
                                                       processedCount>>
    /\ UNCHANGED <<fs, now, output, pc, existingChecksums, lastRun, paths, file,
                   wrote, marked, saved, events0, fs0, events, runs, edits>>

\* Lines 58-92: the Walk callback on the next name.
Visit(p) ==
    /\ pc[p] = "walk"
    /\ todo[p] # <<>>
    /\ LET path    == Join(targetDir, Head(todo[p]))
           info    == fs[path]
           relPath == Rel(targetDir, path)
           stale   == NeedsUpdate(info, relPath, lastRun[p], existingChecksums[p])
           res     == fileMD5(fs, path)
           differs == Lookup(existingChecksums[p], relPath) # res.sum
       IN  /\ todo' = [todo EXCEPT ![p] = Tail(todo[p])]
           /\ visited' = [visited EXCEPT ![p] =
                            IF info.exists
                            THEN @ \cup {[rel |-> relPath, mtime |-> info.mtime]}
                            ELSE @]
           /\ IF ~info.exists \/ IsMarker(relPath)
              THEN UNCHANGED <<newChecksums, changed, neededUpdate, processedCount,
                               hashed>>
              ELSE IF ~stale
                      THEN UNCHANGED <<newChecksums, changed, neededUpdate,
                                       processedCount, hashed>>
                      ELSE /\ hashed' = [hashed EXCEPT ![p] =
                                           @ \cup {[rel |-> relPath, err |-> res.err,
                                                    sum |-> res.sum]}]
                           /\ IF res.err
                              THEN UNCHANGED <<newChecksums, changed, neededUpdate,
                                               processedCount>>
                              ELSE /\ neededUpdate' = [neededUpdate EXCEPT ![p] = TRUE]
                                   /\ IF differs
                                      THEN /\ changed' = [changed EXCEPT ![p] = TRUE]
                                           /\ newChecksums' = [newChecksums EXCEPT ![p] =
                                                                 Put(@, relPath, res.sum)]
                                           /\ processedCount' =
                                                [processedCount EXCEPT ![p] = @ + 1]
                                      ELSE UNCHANGED <<newChecksums, changed,
                                                       processedCount>>
    /\ UNCHANGED <<fs, now, output, pc, existingChecksums, lastRun, paths, file,
                   wrote, marked, saved, events0, fs0, events, runs, edits>>

\* Line 96: the test that decides between "no changes" and a write.
NoChanges(p) == ~changed[p] /\ mapsEqual(existingChecksums[p], newChecksums[p])

\* The run has ended normally (main returns): what it found at its start is
\* behind it, what happened while it ran is not.
Return(p) ==
    /\ pc' = [pc EXCEPT ![p] = "done"]
    /\ events' = events \ events0[p]

\* Mutant of MarkerDue: the wrong flag.
MarkerDueWhenChanged(p) == changed[p]

\* Line 100: the marker is rewritten although nothing changed.
MarkerDue(p) == neededUpdate[p]

\* Lines 94-107, after the walk: return, rewrite the marker, or write.
Decide(p) ==
    /\ pc[p] = "walk"
    /\ todo[p] = <<>>
    /\ IF NoChanges(p)
       THEN IF MarkerDue(p)
            THEN /\ pc' = [pc EXCEPT ![p] = "mark"]
                 /\ UNCHANGED events
            ELSE Return(p)
       ELSE /\ pc' = [pc EXCEPT ![p] = "create"]
            /\ UNCHANGED events
    /\ UNCHANGED <<fs, now, output, locals, hashed, visited, wrote, marked, saved,
                   events0, fs0, runs, edits>>

\* Mutant of SaveCreate: the marker rewritten before the manifest is saved.
SaveCreateMarkerFirst(p) ==
    /\ pc[p] = "create"
    /\ fs' = [fs EXCEPT ![tmpPath] = NewFile(<<>>, now),
                        ![timestampPath] = NewFile(<<>>, now)]
    /\ file' = [file EXCEPT ![p] = [at |-> "tmp", off |-> 0]]
    /\ paths' = [paths EXCEPT ![p] = SortStrings(DOMAIN newChecksums[p])]
    /\ wrote' = [wrote EXCEPT ![p] = TRUE]
    /\ pc' = [pc EXCEPT ![p] = "write"]
    /\ UNCHANGED <<now, output, existingChecksums, newChecksums, lastRun, changed,
                   neededUpdate, processedCount, todo, hashed, visited, marked,
                   saved, events0, fs0, events, runs, edits>>

\* writeChecksums, lines 158-169: create the temporary file, sort the paths.
SaveCreate(p) ==
    /\ pc[p] = "create"
    /\ fs' = [fs EXCEPT ![tmpPath] = NewFile(<<>>, now)]
    /\ file' = [file EXCEPT ![p] = [at |-> "tmp", off |-> 0]]
    /\ paths' = [paths EXCEPT ![p] = SortStrings(DOMAIN newChecksums[p])]
    /\ wrote' = [wrote EXCEPT ![p] = TRUE]
    /\ pc' = [pc EXCEPT ![p] = "write"]
    /\ UNCHANGED <<now, output, existingChecksums, newChecksums, lastRun, changed,
                   neededUpdate, processedCount, todo, hashed, visited, marked,
                   saved, events0, fs0, events, runs, edits>>

\* writeChecksums, lines 171-175: one Fprintf, which is one write through the
\* descriptor, to the file it refers to wherever that file is now.
SaveWrite(p) ==
    /\ pc[p] = "write"
    /\ paths[p] # <<>>
    /\ LET path   == Head(paths[p])
           line   == FormatLine(newChecksums[p][path], path)
           target == IF file[p].at = "tmp" THEN tmpPath ELSE output
       IN  /\ fs' = IF file[p].at \in {"tmp", "out"}
                    THEN [fs EXCEPT ![target] =
                            [@ EXCEPT !.data = WriteAt(@, file[p].off, line),
                                      !.mtime = now]]
                    ELSE fs
           /\ file' = [file EXCEPT ![p].off = @ + Len(line)]
    /\ paths' = [paths EXCEPT ![p] = Tail(paths[p])]
    /\ UNCHANGED <<now, output, pc, existingChecksums, newChecksums, lastRun, changed,
                   neededUpdate, processedCount, todo, ghosts, runs, edits>>

\* writeChecksums, line 177: rename whatever is at the temporary path over the
\* manifest, and close the file on return; the rename fails, and main ends
\* fatally, when nothing is at the temporary path.  Descriptors follow their
\* file: one open on the renamed file now refers to the manifest, one open on
\* the replaced manifest to a file without a name.
SaveRename(p) ==
    /\ pc[p] = "write"
    /\ paths[p] = <<>>
    /\ IF fs[tmpPath].exists
       THEN /\ fs' = [fs EXCEPT ![output] = fs[tmpPath], ![tmpPath] = NoFile]
            /\ file' = [r \in Procs |->
                          IF r = p THEN Closed
                          ELSE IF file[r].at = "tmp" THEN [file[r] EXCEPT !.at = "out"]
                          ELSE IF file[r].at = "out" THEN [file[r] EXCEPT !.at = "unlinked"]
                          ELSE file[r]]
            /\ pc' = [pc EXCEPT ![p] = "mark"]
            /\ saved' = [saved EXCEPT ![p] = TRUE]
            /\ UNCHANGED events
       ELSE /\ pc' = [pc EXCEPT ![p] = "fatal"]
            /\ file' = [file EXCEPT ![p] = Closed]
            /\ events' = events \cup {<<"fatal", <<>>>>}
            /\ UNCHANGED <<fs, saved>>
    /\ UNCHANGED <<now, output, existingChecksums, newChecksums, lastRun, changed,
                   neededUpdate, processedCount, todo, paths, hashed, visited, wrote,
                   marked, events0, fs0, runs, edits>>

\* updateLastRun, then main returns (lines 102-104 and 110-122).
UpdateLastRun(p) ==
    /\ pc[p] = "mark"
    /\ fs' = [fs EXCEPT ![timestampPath] = NewFile(<<>>, now)]
    /\ marked' = [marked EXCEPT ![p] = TRUE]
    /\ Return(p)
    /\ UNCHANGED <<now, output, locals, hashed, visited, wrote, saved, events0, fs0,
                   runs, edits>>

\* log.Fatal: writeChecksums returned an error from the step it was at (lines
\* 107-109), or updateLastRun could not open the marker (lines 190-197).
Fatal(p) ==
    /\ pc[p] \in {"create", "write", "mark"}
    /\ pc' = [pc EXCEPT ![p] = "fatal"]
    /\ file' = [file EXCEPT ![p] = Closed]
    /\ events' = events \cup {<<"fatal", <<>>>>}
    /\ UNCHANGED <<fs, now, output, existingChecksums, newChecksums, lastRun, changed,
                   neededUpdate, processedCount, todo, paths, hashed, visited, wrote,
                   marked, saved, events0, fs0, runs, edits>>

\* The process is gone, and its memory with it.
Exit(p) ==
    /\ pc[p] \in {"done", "fatal"}
    /\ pc' = [pc EXCEPT ![p] = "idle"]
    /\ existingChecksums' = [existingChecksums EXCEPT ![p] = EmptyMap]
    /\ newChecksums' = [newChecksums EXCEPT ![p] = EmptyMap]
    /\ lastRun' = [lastRun EXCEPT ![p] = ZeroTime]
    /\ changed' = [changed EXCEPT ![p] = FALSE]
    /\ neededUpdate' = [neededUpdate EXCEPT ![p] = FALSE]
    /\ processedCount' = [processedCount EXCEPT ![p] = 0]
    /\ todo' = [todo EXCEPT ![p] = <<>>]
    /\ paths' = [paths EXCEPT ![p] = <<>>]
    /\ file' = [file EXCEPT ![p] = Closed]
    /\ hashed' = [hashed EXCEPT ![p] = {}]
    /\ visited' = [visited EXCEPT ![p] = {}]
    /\ wrote' = [wrote EXCEPT ![p] = FALSE]
    /\ marked' = [marked EXCEPT ![p] = FALSE]
    /\ saved' = [saved EXCEPT ![p] = FALSE]
    /\ events0' = [events0 EXCEPT ![p] = {}]
    /\ fs0' = [fs0 EXCEPT ![p] = NoFiles]
    /\ UNCHANGED <<fs, now, output, events, runs, edits>>

\* ------------------------------------------------------------ environment
Tick ==
    /\ now < MaxTime
    /\ now' = now + 1
    /\ UNCHANGED <<fs, output, pc, locals, ghosts, runs, edits>>

Edited(e) ==
    /\ edits < MaxEdits
    /\ edits' = edits + 1
    /\ events' = events \cup {e}
    /\ UNCHANGED <<now, output, pc, locals, hashed, visited, wrote, marked, saved,
                   events0, fs0, runs>>

\* The user writes a file: new bytes, modification time now.
WriteFile(q, d) ==
    /\ fs[q].exists => fs[q].data # d
    /\ fs' = [fs EXCEPT ![q] = [exists |-> TRUE, data |-> d, mtime |-> now,
                                readable |-> IF @.exists THEN @.readable ELSE TRUE]]
    /\ Edited(<<IF fs[q].exists THEN "edit" ELSE "create", q>>)

\* touch: the modification time moves, the bytes stay.
Touch(q) ==
    /\ fs[q].exists
    /\ fs[q].mtime < now
    /\ fs' = [fs EXCEPT ![q].mtime = now]
    /\ Edited(<<"touch", q>>)

\* chmod: the file becomes unreadable, or readable again.
Chmod(q) ==
    /\ fs[q].exists
    /\ fs' = [fs EXCEPT ![q].readable = ~@]
    /\ Edited(<<"chmod", q>>)

Remove(q) ==
    /\ fs[q].exists
    /\ fs' = [fs EXCEPT ![q] = NoFile]
    /\ Edited(<<"remove", q>>)

AllIdle == \A p \in Procs : pc[p] = "idle"

\* The tree's user and the clock act between two runs: Init holds what a first
\* run may find, and no run sees what happens after the last.
Between == AllIdle /\ 0 < runs /\ runs < MaxRuns

\* One scanner instance; the tree changes between its runs only.  A run reads
\* the clock for the times it writes and for nothing else, so letting the clock
\* tick between runs only loses no outcome of the staleness test.
Next ==
    \/ \E p \in Solo : Begin(p)
    \/ \E p \in Solo : Visit(p)
    \/ \E p \in Solo : Decide(p)
    \/ \E p \in Solo : SaveCreate(p)
    \/ \E p \in Solo : SaveWrite(p)
    \/ \E p \in Solo : SaveRename(p)
    \/ \E p \in Solo : UpdateLastRun(p)
    \/ \E p \in Solo : Fatal(p)
    \/ \E p \in Solo : Exit(p)
    \/ Between /\ Tick
    \/ Between /\ \E q \in UserPaths, d \in Contents : WriteFile(q, d)
    \/ Between /\ \E q \in UserPaths : Touch(q)
    \/ Between /\ \E q \in UserPaths : Chmod(q)
    \/ Between /\ \E q \in UserPaths : Remove(q)

Spec == Init /\ [][Next]_vars

\* The tree's user and the clock may act while a run is under way: from the
\* start of the first run to the end of the last.
Underway == 0 < runs /\ ~(AllIdle /\ runs = MaxRuns)

\* One scanner instance, and a user who edits files at any time, also between
\* the visit of a file and the rewriting of the marker.
NextEdits ==
    \/ \E p \in Solo : Begin(p)
    \/ \E p \in Solo : Visit(p)
    \/ \E p \in Solo : Decide(p)
    \/ \E p \in Solo : SaveCreate(p)
    \/ \E p \in Solo : SaveWrite(p)
    \/ \E p \in Solo : SaveRename(p)
    \/ \E p \in Solo : UpdateLastRun(p)
    \/ \E p \in Solo : Fatal(p)
    \/ \E p \in Solo : Exit(p)
    \/ Underway /\ Tick
    \/ Underway /\ \E q \in UserPaths, d \in Contents : WriteFile(q, d)

SpecEdits == Init /\ [][NextEdits]_vars

\* Two scanner instances started on the same root and output, their steps
\* interleaved in every way; nobody else touches the tree.
NextTwo ==
    \/ \E p \in Procs : Begin(p)
    \/ \E p \in Procs : Visit(p)
    \/ \E p \in Procs : Decide(p)
    \/ \E p \in Procs : SaveCreate(p)
    \/ \E p \in Procs : SaveWrite(p)
    \/ \E p \in Procs : SaveRename(p)
    \/ \E p \in Procs : UpdateLastRun(p)
    \/ \E p \in Procs : Fatal(p)
    \/ \E p \in Procs : Exit(p)

SpecTwo == Init /\ [][NextTwo]_vars

\* ============================================================== properties
Ended(p)   == pc[p] = "done"                       \* the run ended without a fatal error
Following(p) == events0[p] = {}                    \* nothing happened since the run before
PathOf(rel)  == Join(targetDir, rel)
SameBytes(f, g) == f.exists = g.exists /\ f.data = g.data

\* The files of the run that the callback did not skip as the marker.
Evaluated(p) == {v \in visited[p] : ~HasSuffix(v.rel, MD5TimestampFile)}
StaleIn(p, v) == v.mtime > lastRun[p] \/ v.rel \notin DOMAIN existingChecksums[p]
HashedRels(p) == {h.rel : h \in hashed[p]}

\* C1 (as claimed).  Idempotence: a run that follows a completed run, with no
\* change to the file system between the two, does not call writeChecksums and
\* leaves the manifest file byte-identical, wherever the output path lies.
C1_Idempotence ==
    \A p \in Solo :
        (Ended(p) /\ Following(p)) =>
            /\ ~wrote[p]
            /\ SameBytes(fs[output], fs0[p][output])

\* C2 (as claimed).  Edit detection: when the only change since the last
\* completed run is an edit of one recorded file, which set its modification
\* time after the marker's, the run writes a manifest that maps the path to the
\* checksum of the new bytes and otherwise equals the prior manifest.  (Stated
\* for a file the scanner can read: the claim's plainest case.)
C2_EditDetection ==
    \A p \in Solo : \A q \in UserPaths :
        LET rel == Rel(targetDir, q)
        IN  ( /\ Ended(p)
              /\ events0[p] = {<<"edit", q>>}
              /\ rel \in DOMAIN existingChecksums[p]
              /\ fs0[p][q].readable
              /\ fs0[p][q].mtime > lastRun[p] ) =>
                /\ wrote[p]
                /\ readChecksums(fs, output) =
                      Put(existingChecksums[p], rel, Digest(fs0[p][q].data))

\* C3.  Monotonic staleness: a visited file whose modification time is at most
\* the last-run time read at the start of the run, and whose relative path is a
\* key of the prior manifest, is not hashed in the run, and its entry in the
\* working manifest equals its entry in the prior manifest.
C3_MonotonicStaleness ==
    \A p \in Solo : \A v \in visited[p] :
        (v.mtime <= lastRun[p] /\ v.rel \in DOMAIN existingChecksums[p]) =>
            /\ v.rel \notin HashedRels(p)
            /\ v.rel \in DOMAIN newChecksums[p]
            /\ newChecksums[p][v.rel] = existingChecksums[p][v.rel]

C3_Witness ==
    \E p \in Solo : \E v \in Evaluated(p) :
        /\ Ended(p)
        /\ v.mtime = lastRun[p]
        /\ v.rel \in DOMAIN existingChecksums[p]
        /\ hashed[p] # {}

\* C4 (as claimed).  New-file detection: every regular file under the root
\* whose relative path is absent from the prior manifest is hashed, and the
\* manifest the run saves holds its path with its checksum.
C4_NewFileDetection ==
    \A p \in Solo : \A v \in visited[p] :
        (Ended(p) /\ v.rel \notin DOMAIN existingChecksums[p]) =>
            /\ v.rel \in HashedRels(p)
            /\ wrote[p]
            /\ v.rel \in DOMAIN newChecksums[p]
            /\ newChecksums[p][v.rel] = Digest(fs0[p][PathOf(v.rel)].data)

\* C4 (amended).  Every visited regular file whose relative path does not end
\* with the marker's name and is absent from the prior manifest is passed to
\* the hasher, whatever its modification time; when the hash succeeds, the
\* manifest the run saves holds its path with its checksum.
C4_NewFileHashed ==
    \A p \in Solo : \A v \in Evaluated(p) :
        (Ended(p) /\ v.rel \notin DOMAIN existingChecksums[p]) =>
            /\ \E h \in hashed[p] : h.rel = v.rel
            /\ \A h \in hashed[p] :
                 (h.rel = v.rel /\ ~h.err) =>
                    /\ wrote[p]
                    /\ v.rel \in DOMAIN newChecksums[p]
                    /\ newChecksums[p][v.rel] = Digest(fs0[p][PathOf(v.rel)].data)
                    /\ h.sum = newChecksums[p][v.rel]

C4_Witness ==
    \E p \in Solo : \E v \in Evaluated(p) :
        /\ Ended(p)
        /\ v.rel \notin DOMAIN existingChecksums[p]
        /\ v.mtime <= lastRun[p]
        /\ wrote[p]
        /\ v.rel \in DOMAIN newChecksums[p]

\* C5 (as claimed).  Touch without edit: when the only change since the last
\* completed run is a touch of one recorded file, whose recorded checksum is
\* that of its bytes, the run hashes the file, does not set changed, does not
\* write the manifest, and the saved checksum of the path stays.
C5_TouchWithoutEdit ==
    \A p \in Solo : \A q \in UserPaths :
        LET rel == Rel(targetDir, q)
        IN  ( /\ Ended(p)
              /\ events0[p] = {<<"touch", q>>}
              /\ rel \in DOMAIN existingChecksums[p]
              /\ existingChecksums[p][rel] = Digest(fs0[p][q].data)
              /\ fs0[p][q].mtime > lastRun[p] ) =>
                /\ rel \in HashedRels(p)
                /\ ~changed[p]
                /\ ~wrote[p]
                /\ Lookup(readChecksums(fs, output), rel) = existingChecksums[p][rel]

\* C6 (as claimed).  Marker skip: the marker's name is not a key of any
\* manifest the scanner saves, whatever the tree and the prior manifest hold.
C6_MarkerSkip ==
    \A p \in Solo :
        wrote[p] => MD5TimestampFile \notin DOMAIN newChecksums[p]

\* The path of each line of a manifest file: what follows the first separator.
LinePaths(data) ==
    LET lines == ScanLines(data)
    IN  [i \in 1..Len(lines) |-> SplitN2(lines[i])[2]]

\* C7.  Sort invariant: the paths of the lines of a written manifest are
\* strictly ascending in byte order, and they are the keys of the mapping
\* that was saved, each once.
C7_SortInvariant ==
    \A p \in Solo :
        (wrote[p] /\ pc[p] \in {"mark", "done"}) =>
            LET ps == LinePaths(fs[output].data)
            IN  /\ \A i \in 1..Len(ps) : \A j \in 1..Len(ps) :
                      i < j => StrLess(ps[i], ps[j])
                /\ {ps[i] : i \in 1..Len(ps)} = DOMAIN newChecksums[p]
                /\ Len(ps) = Cardinality(DOMAIN newChecksums[p])

C7_Witness ==
    \E p \in Solo :
        /\ wrote[p]
        /\ pc[p] = "mark"
        /\ Cardinality(DOMAIN newChecksums[p]) >= 3
        /\ Len(LinePaths(fs[output].data)) >= 3

\* The complete manifest file of a mapping.
RECURSIVE Lines(_, _)
Lines(m, ks) ==
    IF ks = <<>> THEN <<>> ELSE FormatLine(m[Head(ks)], Head(ks)) \o Lines(m, Tail(ks))

Complete(m) == Lines(m, SortStrings(DOMAIN m))

\* C8.  Atomic manifest write: at every step of a run, and after a fatal error
\* at any step of the save, the manifest path holds either what it held when
\* the run began (the complete previous manifest, or nothing) or the complete
\* new manifest.
C8_AtomicWrite ==
    \A p \in Solo :
        pc[p] # "idle" =>
            \/ fs[output] = fs0[p][output]
            \/ /\ wrote[p]
               /\ fs[output].exists
               /\ fs[output].data = Complete(newChecksums[p])

C8_Witness ==
    \E p \in Solo :
        /\ pc[p] = "fatal"
        /\ wrote[p]
        /\ fs0[p][output].exists
        /\ fs[tmpPath].exists
        /\ fs[tmpPath].data # <<>>
        /\ fs[tmpPath].data # Complete(newChecksums[p])
        /\ fs[output] = fs0[p][output]

\* C9 (as claimed).  Run-marker lifecycle: a run that ends without a fatal
\* error and in which a visited file was stale has rewritten the marker to the
\* current instant.
C9_MarkerLifecycle ==
    \A p \in Solo :
        (Ended(p) /\ \E v \in Evaluated(p) : StaleIn(p, v)) =>
            /\ marked[p]
            /\ fs[timestampPath] = NewFile(<<>>, now)

\* C9 (amended).  A run that ends without a fatal error and in which a stale
\* file was hashed successfully has rewritten the marker to the current
\* instant, whether or not the manifest changed.
C9_MarkerAfterHash ==
    \A p \in Solo :
        (Ended(p) /\ \E h \in hashed[p] : ~h.err) =>
            /\ marked[p]
            /\ fs[timestampPath] = NewFile(<<>>, now)

C9_Witness ==
    \E p \in Solo :
        /\ Ended(p)
        /\ \E h \in hashed[p] : ~h.err
        /\ ~wrote[p]
        /\ marked[p]
        /\ fs0[p][timestampPath].mtime < now

\* C10.  No write on no change: once the walk is over, if no hashed file gave
\* a checksum different from its value in the prior manifest, writeChecksums is
\* not called and the manifest and its temporary file are as they were when
\* the run began; if moreover no file was hashed successfully, the marker is as
\* it was too.
C10_NoWriteOnNoChange ==
    \A p \in Solo :
        ( /\ pc[p] \in {"create", "write", "mark", "done", "fatal"}
          /\ \A h \in hashed[p] :
                h.err \/ h.sum = Lookup(existingChecksums[p], h.rel) ) =>
            /\ ~wrote[p]
            /\ pc[p] \notin {"create", "write"}
            /\ fs[output] = fs0[p][output]
            /\ fs[tmpPath] = fs0[p][tmpPath]
            /\ (\A h \in hashed[p] : h.err) =>
                  /\ ~marked[p]
                  /\ pc[p] = "done"
                  /\ fs[timestampPath] = fs0[p][timestampPath]

C10_Witness ==
    \E p \in Solo :
        /\ Ended(p)
        /\ \E v \in Evaluated(p) : ~StaleIn(p, v)
        /\ hashed[p] = {}
        /\ fs0[p][output].exists
        /\ fs0[p][timestampPath].exists
        /\ fs[output] = fs0[p][output]


\* C11 (as claimed).  No edit is permanently missed: when a run that began
\* after the last edit ends without a fatal error and without a hash error,
\* every recorded file's checksum in the run's manifest is the checksum of the
\* file's current bytes, also when the edit was made during an earlier scan.
\* (Stated for readable files whose time differs from the marker's when the run
\* begins: two events at one instant of the clock are not what is claimed.)
C11_NoEditMissed ==
    \A p \in Solo :
        ( /\ Ended(p)
          /\ events = {}
          /\ \A h \in hashed[p] : ~h.err
          /\ \A q \in UserPaths :
                fs0[p][q].exists => fs0[p][q].mtime # lastRun[p] ) =>
            \A q \in UserPaths :
                LET rel == Rel(targetDir, q)
                IN  (fs[q].exists /\ fs[q].readable /\ rel \in DOMAIN newChecksums[p]) =>
                        newChecksums[p][rel] = Digest(fs[q].data)


\* C15 (as claimed).  Last writer wins under concurrent instances: when two
\* instances run together and each has issued every write of its save, under
\* every interleaving of the steps of their saves, once both have ended the
\* output path holds the complete manifest computed by an instance whose
\* rename was done.
C15_LastWriterWins ==
    ( /\ \A p \in Procs : pc[p] \in {"done", "fatal"} /\ wrote[p] /\ paths[p] = <<>>
      /\ \E p \in Procs : saved[p] ) =>
        \E q \in Procs :
            /\ saved[q]
            /\ fs[output].exists
            /\ fs[output].data = Complete(newChecksums[q])

\* The staleness test as a run that starts in the current state would make it.
StaleNext(rel) ==
    NeedsUpdate(fs[PathOf(rel)], rel, getLastRunTime(fs, timestampPath),
                readChecksums(fs, output))

\* A write was triggered: the run went past the test of line 96 to line 107.
WriteTriggered(p) ==
    pc[p] \in {"create", "write", "mark", "done", "fatal"} /\ ~NoChanges(p)

\* C12.  Write-then-marker ordering: in a run where a write is triggered, the
\* marker is rewritten only once the complete new manifest is at the output
\* path; when the save fails the run ends fatally with the marker as it was
\* when the run began, and every file that was stale in the failed run is
\* stale for a run that starts next.
C12_WriteThenMarker ==
    \A p \in Solo :
        WriteTriggered(p) =>
            /\ fs[timestampPath] # fs0[p][timestampPath] =>
                  /\ marked[p]
                  /\ pc[p] = "done"
                  /\ fs[output].exists
                  /\ fs[output].data = Complete(newChecksums[p])
            /\ marked[p] => fs[timestampPath] = NewFile(<<>>, now)
            /\ pc[p] \in {"create", "write"} => ~marked[p]
            /\ marked[p] => saved[p]
            /\ pc[p] = "fatal" => ~marked[p]
            /\ (pc[p] = "fatal" /\ ~saved[p]) =>
                  /\ fs[timestampPath] = fs0[p][timestampPath]
                  /\ \A v \in Evaluated(p) : StaleIn(p, v) => StaleNext(v.rel)

C12_Witness ==
    \E p \in Solo : \E v \in Evaluated(p) :
        /\ pc[p] = "fatal"
        /\ wrote[p]
        /\ ~saved[p]
        /\ fs[tmpPath].exists
        /\ fs0[p][timestampPath].exists
        /\ v.mtime > lastRun[p]
        /\ v.rel \in DOMAIN existingChecksums[p]
        /\ \E h \in hashed[p] : h.rel = v.rel /\ ~h.err
        /\ StaleNext(v.rel)

\* The entries a manifest file records: its lines that have the separator of
\* Save's line format, and the path field of each.
SavedLines(data) ==
    LET lines == ScanLines(data)
    IN  {lines[i] : i \in {j \in 1..Len(lines) : Len(SplitN2(lines[j])) = 2}}

SavedPaths(data) == {SplitN2(l)[2] : l \in SavedLines(data)}

\* C13 (as claimed).  No deletion tracking: in every run the working
\* manifest's keys include the prior manifest's keys, so the set of paths in
\* the saved manifest never shrinks from one run to the next, and the entry of
\* a file that was deleted from disk stays, with its checksum, in the manifest
\* the run leaves.
C13_NoDeletionTracking ==
    \A p \in Solo :
        pc[p] # "idle" =>
            /\ DOMAIN existingChecksums[p] \subseteq DOMAIN newChecksums[p]
            /\ Ended(p) =>
                  /\ SavedPaths(fs0[p][output].data) \subseteq SavedPaths(fs[output].data)
                  /\ \A q \in UserPaths :
                        <<"remove", q>> \in events0[p] =>
                            \A l \in SavedLines(fs0[p][output].data) :
                                SplitN2(l)[2] = Rel(targetDir, q) =>
                                    l \in SavedLines(fs[output].data)

\* The step is a call of fileMD5 that returned an error, for the path h.rel.
HashFailure(p, h) == h \in hashed[p]' /\ h \notin hashed[p] /\ h.err

\* C14.  Hash-failure isolation: the step in which hashing a stale file fails
\* leaves the working manifest as it was, with the path's entry what the prior
\* manifest has for it (the old checksum, or none), leaves changed,
\* neededUpdate and the processed counter as they were, and goes on to the
\* next file of the walk.
C14_HashFailureIsolation ==
    [][ \A p \in Solo : \A h \in hashed[p]' :
            HashFailure(p, h) =>
                /\ newChecksums[p]' = newChecksums[p]
                /\ (h.rel \in DOMAIN newChecksums[p]') = (h.rel \in DOMAIN existingChecksums[p])
                /\ Lookup(newChecksums[p]', h.rel) = Lookup(existingChecksums[p], h.rel)
                /\ changed[p]' = changed[p]
                /\ neededUpdate[p]' = neededUpdate[p]
                /\ processedCount[p]' = processedCount[p]
                /\ pc[p]' = "walk"
                /\ todo[p] # <<>>
                /\ todo[p]' = Tail(todo[p])
      ]_vars

\* A run in which a file failed to hash and a file visited after it was hashed.
C14_Witness ==
    \E p \in Solo : \E h \in hashed[p] : \E g \in hashed[p] :
        /\ Ended(p)
        /\ h.err
        /\ h.rel \in DOMAIN existingChecksums[p]
        /\ ~g.err
        /\ StrLess(h.rel, g.rel)
        /\ Lookup(newChecksums[p], g.rel) = g.sum
        /\ Lookup(newChecksums[p], h.rel) = existingChecksums[p][h.rel]

\* A stale file of the run whose fresh checksum is not its prior-manifest value.
FreshDiffers(p) ==
    \E h \in hashed[p] : ~h.err /\ h.sum # Lookup(existingChecksums[p], h.rel)

\* C16.  Equivalence of the two change signals: at every point of a run from
\* the first visit on, and so at the end of the traversal, changed is true
\* exactly when the working manifest differs from the prior manifest, which
\* is exactly when mapsEqual is false and exactly when some stale file's fresh
\* checksum differs from its prior-manifest value; a write is triggered in
\* exactly these runs, never by the equality comparison alone.
C16_ChangeSignals ==
    \A p \in Solo :
        pc[p] # "idle" =>
            /\ changed[p] = (newChecksums[p] # existingChecksums[p])
            /\ changed[p] = ~mapsEqual(existingChecksums[p], newChecksums[p])
            /\ changed[p] = FreshDiffers(p)
            /\ pc[p] # "walk" => (WriteTriggered(p) = changed[p])
            /\ pc[p] \in {"create", "write"} => changed[p]
            /\ wrote[p] => changed[p]

C16_Witness ==
    \E p \in Solo : \E h \in hashed[p] : \E g \in hashed[p] :
        /\ Ended(p)
        /\ ~h.err
        /\ h.sum = Lookup(existingChecksums[p], h.rel)
        /\ ~g.err
        /\ g.sum # Lookup(existingChecksums[p], g.rel)
        /\ changed[p]
        /\ wrote[p]
        /\ newChecksums[p] # existingChecksums[p]

\* C17 (as claimed).  Manifest round trip: once a run has saved its working
\* manifest, whatever paths it holds (with leading or trailing white space,
\* with two consecutive spaces), loading the file at the output path gives
\* exactly the mapping that was saved.
C17_RoundTrip ==
    \A p \in Solo :
        saved[p] => readChecksums(fs, output) = newChecksums[p]

====
